---- MODULE Spec2Model ----
(***************************************************************************)
(* Triadic agent (src/triadic_agent.py): the four-stage extraction         *)
(* pipeline run by TriadicAgent.run, its per-stage text filters and the    *)
(* diagnostics.                                                            *)
(*                                                                         *)
(* A Python str is modelled as a sequence of one-character strings, so     *)
(* that strip, split, splitlines, lower, replace, substring tests and the  *)
(* regular expression of the sanitizer are computed character by           *)
(* character.  The language-model gateway is the environment: every call   *)
(* draws its outcome (a failure, or some content) from a bounded set.      *)
(***************************************************************************)
EXTENDS Naturals, Sequences, FiniteSets, TLC

VARIABLES
    pc,           \* position of the run (or of the function run on its own)
    topic,        \* argument of run
    raw,          \* what the last gateway call returned
    calls,        \* the gateway calls made so far, in order
    explanation,  \* local of run
    negative,     \* local of run
    neutral,      \* local of run
    positive,     \* local of run
    diags,        \* local of run
    result,       \* <<>> until run returns, then <<the TriadicResult>>
    arg,          \* sanitizer on its own: the input string
    once,         \* sanitizer on its own: sanitize_explanation(arg)
    twice         \* sanitizer on its own: sanitize_explanation(once)

vars == <<pc, topic, raw, calls, explanation, negative, neutral, positive,
          diags, result, arg, once, twice>>

(***************************************************************************)
(* Characters                                                              *)
(***************************************************************************)
\* U+2022, the bullet of the strip sets of lines 130 and 210
Bullet == "bullet"

UpperCase == <<"A","B","C","D","E","F","G","H","I","J","K","L","M",
               "N","O","P","Q","R","S","T","U","V","W","X","Y","Z">>

LowerCase == <<"a","b","c","d","e","f","g","h","i","j","k","l","m",
               "n","o","p","q","r","s","t","u","v","w","x","y","z">>

Range(f) == {f[i] : i \in DOMAIN f}

\* what str.strip() with no argument removes and str.split() splits on,
\* within the characters the inputs are made of
Whitespace == {" ", "\t", "\n", "\r"}

\* \w of the re module, within the characters the inputs are made of
WordChars == Range(UpperCase) \cup Range(LowerCase) \cup
             {"0","1","2","3","4","5","6","7","8","9","_"}

\* the line boundaries of str.splitlines()
LineBreaks == {"\n", "\r"}

\* the argument of l.strip(" -*\u2022\t")
BulletChars == {" ", "-", "*", Bullet, "\t"}

(***************************************************************************)
(* The str methods the program uses                                        *)
(***************************************************************************)
Min(a, b) == IF a <= b THEN a ELSE b

\* s[:n]
Take(s, n) == SubSeq(s, 1, Min(n, Len(s)))

\* s[n:]
Drop(s, n) == SubSeq(s, n + 1, Len(s))

RECURSIVE LStripSet(_, _)
LStripSet(s, cs) ==
    IF s = <<>> \/ s[1] \notin cs THEN s ELSE LStripSet(Tail(s), cs)

RECURSIVE RStripSet(_, _)
RStripSet(s, cs) ==
    IF s = <<>> \/ s[Len(s)] \notin cs THEN s
    ELSE RStripSet(SubSeq(s, 1, Len(s) - 1), cs)

\* s.strip(cs)
StripSet(s, cs) == RStripSet(LStripSet(s, cs), cs)

\* s.strip()
Strip(s) == StripSet(s, Whitespace)

\* s.endswith(t)
EndsWith(s, t) == Len(s) >= Len(t) /\ Drop(s, Len(s) - Len(t)) = t

\* s.startswith(t)
StartsWith(s, t) == Len(s) >= Len(t) /\ Take(s, Len(t)) = t

\* t in s
Contains(s, t) ==
    \E i \in 0..(Len(s) - Len(t)) : SubSeq(s, i + 1, i + Len(t)) = t

\* s.lower()
LowerChar(c) ==
    IF c \in Range(UpperCase)
    THEN LowerCase[CHOOSE i \in DOMAIN UpperCase : UpperCase[i] = c]
    ELSE c

Lower(s) == [i \in DOMAIN s |-> LowerChar(s[i])]

\* the index of the first character of s that is in cs, 0 if there is none
FirstIn(s, cs) ==
    IF \E i \in DOMAIN s : s[i] \in cs
    THEN CHOOSE i \in DOMAIN s : s[i] \in cs /\ \A j \in 1..(i - 1) : s[j] \notin cs
    ELSE 0

\* s.split(c) for a one-character separator: always at least one piece
RECURSIVE Split(_, _)
Split(s, c) ==
    LET i == FirstIn(s, {c})
    IN  IF i = 0 THEN <<s>> ELSE <<Take(s, i - 1)>> \o Split(Drop(s, i), c)

\* s.splitlines(): "\r\n" is one boundary, a final boundary opens no line
RECURSIVE SplitLines(_)
SplitLines(s) ==
    LET i == FirstIn(s, LineBreaks)
        n == IF i > 0 /\ i < Len(s) /\ s[i] = "\r" /\ s[i + 1] = "\n" THEN i + 1 ELSE i
    IN  IF s = <<>> THEN <<>>
        ELSE IF i = 0 THEN <<s>>
        ELSE <<Take(s, i - 1)>> \o SplitLines(Drop(s, n))

\* sep.join(parts)
RECURSIVE Join(_, _)
Join(parts, sep) ==
    IF parts = <<>> THEN <<>>
    ELSE IF Len(parts) = 1 THEN parts[1]
    ELSE parts[1] \o sep \o Join(Tail(parts), sep)

\* s.replace(t, "") for a non-empty t: leftmost occurrences, never overlapping
RECURSIVE Remove(_, _)
Remove(s, t) ==
    IF Len(s) < Len(t) THEN s
    ELSE IF StartsWith(s, t) THEN Remove(Drop(s, Len(t)), t)
    ELSE <<s[1]>> \o Remove(Tail(s), t)

\* len(s.split()): the number of maximal runs of non-whitespace
WordCount(s) ==
    Cardinality({i \in DOMAIN s :
        s[i] \notin Whitespace /\ (i = 1 \/ s[i - 1] \in Whitespace)})

\* [x for x in lines if x.strip()]
NonBlank(l) == Strip(l) # <<>>

(***************************************************************************)
(* MODEL WRAPPER: TriadicAgent.call                                        *)
(***************************************************************************)
ExplanationModel == "deepseek/deepseek-r1"
NegativeModel    == "openai/gpt-4o-mini"
NeutralModel     == "deepseek/deepseek-r1"
PositiveModel    == "openai/gpt-4o-mini"

\* An outcome of requests.post(...).json() and of reading the content out of
\* it: either something raises, or the content is a string.
Failure == [ok |-> FALSE, content |-> <<>>]
Content(c) == [ok |-> TRUE, content |-> c]

\* call: the content stripped, or "" when anything raised (lines 59-64)
Call(o) == IF o.ok THEN Strip(o.content) ELSE <<>>

\* what call leaves in the log of gateway calls
CallRecord(stage, model, text) ==
    [stage |-> stage, model |-> model, empty |-> (text = <<>>)]

(***************************************************************************)
(* EXPLANATION SANITIZER: TriadicAgent.sanitize_explanation                *)
(***************************************************************************)
\* The places where $ matches (no MULTILINE flag): the end of the string and
\* just before a newline that is the last character.  A place is the number
\* of characters before it.
DollarPlaces(s) ==
    {Len(s)} \cup (IF s # <<>> /\ s[Len(s)] = "\n" THEN {Len(s) - 1} ELSE {})

\* \b before character i (i in 1..Len(s)+1)
WordBoundary(s, i) ==
    (i > 1 /\ s[i - 1] \in WordChars) # (i <= Len(s) /\ s[i] \in WordChars)

\* the places where a match of \b\w+$ that starts at character i can end
MatchEnds(s, i) ==
    IF WordBoundary(s, i)
    THEN {e \in DollarPlaces(s) :
             e >= i /\ \A j \in i..e : s[j] \in WordChars}
    ELSE {}

Max(S) == CHOOSE m \in S : \A x \in S : x <= m

\* re.sub(r"\b\w+$", "", s) from character pos on: the leftmost match, taken
\* greedily, is deleted and the scan goes on behind it
DropWordAtEndFrom_AnyLastToken(s, pos) ==
    RStripSet(Drop(s, pos - 1), {c \in Range(s) : c \notin Whitespace})

RECURSIVE DropWordAtEndFrom(_, _)

DropWordAtEndFrom(s, pos) ==
    LET starts == {i \in pos..Len(s) : MatchEnds(s, i) # {}}
        i == CHOOSE k \in starts : \A x \in starts : k <= x
        e == Max(MatchEnds(s, i))
    IN  IF starts = {} THEN Drop(s, pos - 1)
        ELSE SubSeq(s, pos, i - 1) \o DropWordAtEndFrom(s, e + 1)

\* line 73: re.sub(r"\b\w+$", "", explanation).strip()
RemoveIncomplete(s) == Strip(DropWordAtEndFrom(s, 1))

\* lines 76-77
EnforcePeriod_Always(e) == e \o <<".">>

EnforcePeriod(e) == IF EndsWith(e, <<".">>) THEN e ELSE e \o <<".">>

\* lines 80-81: the non-blank lines, stripped, joined by one space
Collapse(e) ==
    LET lines == SelectSeq(Split(e, "\n"), NonBlank)
    IN  Join([i \in DOMAIN lines |-> Strip(lines[i])], <<" ">>)

\* lines 84-87, in the order the loop of line 88 visits them
SanitizerBanned == <<
    <<"p","e","r","c","e","i","v","e">>, <<"i","n","t","e","r","p","r","e","t","e","d">>, <<"h","e","a","r","d"," ","a","s">>, <<"l","i","s","t","e","n","e","r">>, <<"m","u","s","i","c">>,
    <<"e","m","o","t","i","o","n">>, <<"h","a","r","m","o","n","y">>, <<"e","x","p","e","r","i","e","n","c","e">>, <<"s","e","n","s","a","t","i","o","n">> >>

\* lines 88-89: one replace per banned term, in order
RECURSIVE RemoveAll(_, _)
RemoveAll(s, terms) ==
    IF terms = <<>> THEN s ELSE RemoveAll(Remove(s, Head(terms)), Tail(terms))

\* lines 76-91: everything after the removal of the incomplete end
FinishExplanation(e) ==
    Strip(RemoveAll(Collapse(EnforcePeriod(e)), SanitizerBanned))

SanitizeExplanation(s) == FinishExplanation(RemoveIncomplete(s))

(***************************************************************************)
(* NEGATIVE EXTRACTION: TriadicAgent.extract_negative                      *)
(***************************************************************************)
\* lines 133-138
NegativeBanned == {
    <<"w","a","v","e">>, <<"p","r","o","p","a","g","a","t","i","o","n">>, <<"d","i","s","t","u","r","b","a","n","c","e">>, <<"r","e","g","i","o","n">>,
    <<"p","a","t","t","e","r","n">>, <<"f","l","o","w">>, <<"m","o","t","i","o","n">>, <<"c","o","m","p","r","e","s","s","i","o","n">>,
    <<"r","a","r","e","f","a","c","t","i","o","n">>, <<"n","e","a","r","b","y">>, <<"n","e","i","g","h","b","o","r","i","n","g">>, <<"p","r","o","c","e","s","s">>,
    <<"i","n","t","e","r","a","c","t","i","o","n">> }

\* line 149
PropertyKeywords == { <<"d","e","n","s","i","t","y">>, <<"e","n","e","r","g","y">>, <<"f","o","r","c","e">> }

\* line 145: phrases of more words than this are dropped
MaxWords == 3

\* line 155: clean[:10]
MaxNegative == 10

\* line 130: one candidate per non-blank line, bullets stripped ...
StrippedLines(text) ==
    LET lines == SelectSeq(SplitLines(text), NonBlank)
    IN  [i \in DOMAIN lines |-> StripSet(lines[i], BulletChars)]

\* ... and lower-cased
Candidates(text) ==
    [i \in DOMAIN StrippedLines(text) |-> Lower(StrippedLines(text)[i])]

\* lines 142-151: the three tests that drop a candidate
IsBannedItem(item) == \E b \in NegativeBanned : Contains(item, b)

IsLongItem(item) == WordCount(item) > MaxWords

IsPropertyItem(item) ==
    \E pk \in PropertyKeywords : pk = item \/ Contains(item, pk \o <<" ">>)

KeepNegative(item) ==
    ~IsBannedItem(item) /\ ~IsLongItem(item) /\ ~IsPropertyItem(item)

\* lines 130-155 on the text call returned
NegativeFrom_LowerAfterFilter(text) ==
    LET kept == SelectSeq(StrippedLines(text), KeepNegative)
    IN  Take([i \in DOMAIN kept |-> Lower(kept[i])], MaxNegative)

NegativeFrom(text) == Take(SelectSeq(Candidates(text), KeepNegative), MaxNegative)

(***************************************************************************)
(* NEUTRAL INTERACTIONS: TriadicAgent.extract_neutral                      *)
(***************************************************************************)
\* line 181 on the text call returned
NeutralFrom_OnePeriodStripped(text) ==
    LET lines == SelectSeq(SplitLines(text), NonBlank)
        body(l) == IF EndsWith(Strip(l), <<".">>)
                   THEN Take(Strip(l), Len(Strip(l)) - 1) ELSE Strip(l)
    IN  [i \in DOMAIN lines |-> body(lines[i]) \o <<".">>]

NeutralFrom(text) ==
    LET lines == SelectSeq(SplitLines(text), NonBlank)
    IN  [i \in DOMAIN lines |-> RStripSet(Strip(lines[i]), {"."}) \o <<".">>]

(***************************************************************************)
(* POSITIVE STATES: TriadicAgent.extract_positive                          *)
(***************************************************************************)
\* lines 213-215
BannedVerbs == { <<"c","r","e","a","t","e","s">>, <<"l","e","a","d","s"," ","t","o">>, <<"r","e","s","u","l","t","s"," ","i","n">>, <<"c","a","u","s","e","s">>, <<"p","r","o","d","u","c","e","s">> }

\* lines 219-221
KeepPositive(it) == ~\E b \in BannedVerbs : Contains(Lower(it), b)

\* line 210 and lines 217-222
PositiveItems(text) ==
    LET lines == SelectSeq(SplitLines(text), NonBlank)
    IN  SelectSeq([i \in DOMAIN lines |-> StripSet(lines[i], BulletChars)],
                  KeepPositive)

\* lines 210-225 on the neutral list and the text call returned
PositiveFrom_NotTruncated(neu, text) == PositiveItems(text)

PositiveFrom(neu, text) == Take(PositiveItems(text), Len(neu))

(***************************************************************************)
(* DIAGNOSTICS: TriadicAgent.analyze                                       *)
(***************************************************************************)
NegativeFailed == "NEGATIVE extraction failed."
NeutralFailed  == "NEUTRAL extraction failed."
PositiveFailed == "POSITIVE extraction failed."
Mismatch       == "NEU/POS mismatch."

Analyze_MismatchAgainstNegative(neg, neu, pos) ==
    (IF neg = <<>> THEN <<NegativeFailed>> ELSE <<>>) \o
    (IF neu = <<>> THEN <<NeutralFailed>> ELSE <<>>) \o
    (IF pos = <<>> THEN <<PositiveFailed>> ELSE <<>>) \o
    (IF Len(neg) # Len(pos) THEN <<Mismatch>> ELSE <<>>)

Analyze_MismatchWhenEmpty(neg, neu, pos) ==
    (IF neg = <<>> THEN <<NegativeFailed>> ELSE <<>>) \o
    (IF neu = <<>> THEN <<NeutralFailed>> ELSE <<>>) \o
    (IF pos = <<>> THEN <<PositiveFailed>> ELSE <<>>) \o
    (IF Len(neu) # Len(pos) \/ pos = <<>> THEN <<Mismatch>> ELSE <<>>)

Analyze(neg, neu, pos) ==
    (IF neg = <<>> THEN <<NegativeFailed>> ELSE <<>>) \o
    (IF neu = <<>> THEN <<NeutralFailed>> ELSE <<>>) \o
    (IF pos = <<>> THEN <<PositiveFailed>> ELSE <<>>) \o
    (IF Len(neu) # Len(pos) THEN <<Mismatch>> ELSE <<>>)

(***************************************************************************)
(* RUN TRIAD: TriadicAgent.run                                             *)
(***************************************************************************)
\* run is straight-line code: the stage that follows a stage does not depend
\* on what the stage produced (lines 249-256)
StageAfter_SkipWhenEmpty(stage, out) ==
    IF out = <<>> /\ stage \in {"negative", "neutral"} THEN "analyze"
    ELSE CASE stage = "explanation" -> "negative"
           [] stage = "negative"    -> "neutral"
           [] stage = "neutral"     -> "positive"
           [] stage = "positive"    -> "analyze"
           [] stage = "analyze"     -> "return"
           [] stage = "return"      -> "done"

StageAfter(stage, out) ==
    CASE stage = "explanation" -> "negative"
      [] stage = "negative"    -> "neutral"
      [] stage = "neutral"     -> "positive"
      [] stage = "positive"    -> "analyze"
      [] stage = "analyze"     -> "return"
      [] stage = "return"      -> "done"

\* line 256
TriadicResult(t, e, neg, neu, pos, d) ==
    [topic |-> t, explanation |-> e, negative |-> neg, neutral |-> neu,
     positive |-> pos, diagnostics |-> d]

\* line 249: build_explanation (lines 97-107)
BuildExplanation(outcomes) ==
    /\ pc = "explanation"
    /\ \E o \in outcomes :
        /\ raw' = Call(o)
        /\ calls' = Append(calls, CallRecord("explanation", ExplanationModel, Call(o)))
        /\ explanation' = SanitizeExplanation(Call(o))
        /\ pc' = StageAfter("explanation", SanitizeExplanation(Call(o)))
    /\ UNCHANGED <<topic, negative, neutral, positive, diags, result, arg, once, twice>>

\* line 250: extract_negative (lines 113-155)
ExtractNegative(outcomes) ==
    /\ pc = "negative"
    /\ \E o \in outcomes :
        /\ raw' = Call(o)
        /\ calls' = Append(calls, CallRecord("negative", NegativeModel, Call(o)))
        /\ negative' = NegativeFrom(Call(o))
        /\ pc' = StageAfter("negative", NegativeFrom(Call(o)))
    /\ UNCHANGED <<topic, explanation, neutral, positive, diags, result, arg, once, twice>>

\* line 251: extract_neutral (lines 161-181)
ExtractNeutral(outcomes) ==
    /\ pc = "neutral"
    /\ \E o \in outcomes :
        /\ raw' = Call(o)
        /\ calls' = Append(calls, CallRecord("neutral", NeutralModel, Call(o)))
        /\ neutral' = NeutralFrom(Call(o))
        /\ pc' = StageAfter("neutral", NeutralFrom(Call(o)))
    /\ UNCHANGED <<topic, explanation, negative, positive, diags, result, arg, once, twice>>

\* line 252: extract_positive (lines 187-225)
ExtractPositive(outcomes) ==
    /\ pc = "positive"
    /\ \E o \in outcomes :
        /\ raw' = Call(o)
        /\ calls' = Append(calls, CallRecord("positive", PositiveModel, Call(o)))
        /\ positive' = PositiveFrom(neutral, Call(o))
        /\ pc' = StageAfter("positive", PositiveFrom(neutral, Call(o)))
    /\ UNCHANGED <<topic, explanation, negative, neutral, diags, result, arg, once, twice>>

\* line 254
Diagnose ==
    /\ pc = "analyze"
    /\ diags' = Analyze(negative, neutral, positive)
    /\ pc' = StageAfter("analyze", Analyze(negative, neutral, positive))
    /\ UNCHANGED <<topic, raw, calls, explanation, negative, neutral, positive,
                   result, arg, once, twice>>

\* line 256
Return ==
    /\ pc = "return"
    /\ result' = <<TriadicResult(topic, explanation, negative, neutral, positive, diags)>>
    /\ pc' = StageAfter("return", <<>>)
    /\ UNCHANGED <<topic, raw, calls, explanation, negative, neutral, positive,
                   diags, arg, once, twice>>

(***************************************************************************)
(* Bounds and the inputs drawn within them                                 *)
(***************************************************************************)
\* the sequences over S of length at most n
SeqsUpTo(S, n) == UNION {[1..k -> S] : k \in 0..n}

\* the texts of at most n lines, each line drawn from lines
Texts(lines, n) == {Join(ls, <<"\n">>) : ls \in SeqsUpTo(lines, n)}

\* the text of n lines, each of them line
Repeated(line, n) == Join([i \in 1..n |-> line], <<"\n">>)

Outcomes(texts) == {Failure} \cup {Content(c) : c \in texts}

\* lines of a gateway response in a whole run
MaxRunLines == 2

\* lines of a gateway response when one stage is run on its own
MaxStageLines == 2

\* items of a list handed to analyze on its own
MaxListLen == 2

\* fragments an input of the sanitizer is put together from
MaxFragments == 4

\* line 166: the prompt asks for "4-8 NEUTRAL mechanisms"
NeutralAsked == 8

\* line 20 sets the topic of the program's own run; run takes any string
Topics == { <<"t","i","d","e","s">>, <<"H","o","w"," ","a"," ","b","l","a","c","k"," ","h","o","l","e"," ","e","v","a","p","o","r","a","t","e","s"," ","t","h","r","o","u","g","h"," ","H","a","w","k","i","n","g"," ","r","a","d","i","a","t","i","o","n",".">> }

RunExplanations == { <<>>, <<"a"," ","b"," ","q","u","a","n","t","u">>, <<"t","h","e"," ","m","u","s","i","c"," ","i","s"," ","c",".">>, <<"a",".","\n","b"," ","c">>, <<" ","\n">> }

RunNegativeLines == { <<"-"," ","I","o","n">>, <<"s","h","o","c","k"," ","w","a","v","e">> }

RunNeutralLines == { <<"i","o","n","s"," ","m","e","e","t"," ","g","a","s",".",".">>, <<"g","a","s"," ","c","o","o","l","s">> }

RunPositiveLines == { <<"*"," ","g","a","s"," ","i","s"," ","p","r","e","s","e","n","t">>, <<"h","e","a","t"," ","c","a","u","s","e","s"," ","f","l","o","w">> }

RunNeutralTexts ==
    Texts(RunNeutralLines, MaxRunLines) \cup {Repeated(<<"g","a","s"," ","c","o","o","l","s">>, NeutralAsked + 1)}

StageNegativeLines == {
    <<"e","v","e","n","t"," ","h","o","r","i","z","o","n">>, <<"v","i","r","t","u","a","l"," ","p","a","r","t","i","c","l","e"," ","p","a","i","r">>, <<"t","h","e"," ","p","r","o","p","a","g","a","t","i","n","g"," ","w","a","v","e"," ","p","a","t","t","e","r","n">>,
    <<"f","o","r","c","e">>, <<"-"," ","I","o","n">>, <<"*"," ","S","h","o","c","k"," ","W","a","v","e">>, <<"a"," ","b"," ","c"," ","d">>, <<"d","a","r","k"," ","e","n","e","r","g","y">>,
    <<"e","n","e","r","g","y"," ","l","e","v","e","l">>, <<"-","-">>, <<"\t","g","a","s"," "," ","c","l","o","u","d"," ","\r">> }

\* the example of the negative stage: four candidates, two survive
ExampleNegativeText ==
    Join(<< <<"e","v","e","n","t"," ","h","o","r","i","z","o","n">>, <<"v","i","r","t","u","a","l"," ","p","a","r","t","i","c","l","e"," ","p","a","i","r">>,
            <<"t","h","e"," ","p","r","o","p","a","g","a","t","i","n","g"," ","w","a","v","e"," ","p","a","t","t","e","r","n">>, <<"f","o","r","c","e">> >>, <<"\n">>)

StageNegativeTexts ==
    Texts(StageNegativeLines, MaxStageLines) \cup
    {ExampleNegativeText,
     Repeated(<<"i","o","n">>, MaxNegative), Repeated(<<"i","o","n">>, MaxNegative + 1),
     Repeated(<<"-"," ","I","o","n">>, MaxNegative + 2)}

StageNeutralLines == {
    <<"p","a","r","t","i","c","l","e"," ","p","a","i","r","s"," ","s","e","p","a","r","a","t","e"," ","n","e","a","r"," ","t","h","e"," ","h","o","r","i","z","o","n">>, <<"o","n","e"," ","p","a","r","t","i","c","l","e"," ","e","s","c","a","p","e","s",".",".">>,
    <<"a",".">>, <<" ","b"," ","."," ">>, <<".",".",".">>, <<"c",".","d">>, <<"-"," ","e">>, <<"\t">>, <<"f","\r","\n","g",".">>, <<"h","."," ",".">> }

StageNeutralTexts ==
    Texts(StageNeutralLines, MaxStageLines) \cup {Repeated(<<"a",".",".">>, NeutralAsked + 1)}

ListItems == { <<"x">>, <<"y",".">> }

Lists == SeqsUpTo(ListItems, MaxListLen)

Fragments == { <<"a">>, <<" ">>, <<".">>, <<"\n">>, <<"-">>, <<"m","u","s","i","c">>, <<"p","e","r">>, <<"c","e","i","v","e">> }

RECURSIVE Concat(_)
Concat(parts) == IF parts = <<>> THEN <<>> ELSE Head(parts) \o Concat(Tail(parts))

SanitizerInputs == {Concat(fs) : fs \in SeqsUpTo(Fragments, MaxFragments)}

(***************************************************************************)
(* A whole run                                                             *)
(***************************************************************************)
Idle == /\ arg = <<>> /\ once = <<>> /\ twice = <<>>

Init ==
    /\ pc = "explanation"
    /\ topic \in Topics
    /\ raw = <<>> /\ calls = <<>> /\ explanation = <<>>
    /\ negative = <<>> /\ neutral = <<>> /\ positive = <<>>
    /\ diags = <<>> /\ result = <<>>
    /\ Idle

Next ==
    \/ BuildExplanation(Outcomes(RunExplanations))
    \/ ExtractNegative(Outcomes(Texts(RunNegativeLines, MaxRunLines)))
    \/ ExtractNeutral(Outcomes(RunNeutralTexts))
    \/ ExtractPositive(Outcomes(Texts(RunPositiveLines, MaxRunLines)))
    \/ Diagnose
    \/ Return

Spec == Init /\ [][Next]_vars

(***************************************************************************)
(* extract_negative on its own                                             *)
(***************************************************************************)
InitNegative ==
    /\ pc = "negative"
    /\ topic \in Topics
    /\ explanation \in {SanitizeExplanation(e) : e \in RunExplanations}
    /\ raw = <<>> /\ calls = <<>>
    /\ negative = <<>> /\ neutral = <<>> /\ positive = <<>>
    /\ diags = <<>> /\ result = <<>>
    /\ Idle

NextNegative == ExtractNegative(Outcomes(StageNegativeTexts))

SpecNegative == InitNegative /\ [][NextNegative]_vars

(***************************************************************************)
(* extract_neutral on its own                                              *)
(***************************************************************************)
InitNeutral ==
    /\ pc = "neutral"
    /\ topic \in Topics
    /\ explanation = <<"a",".">>
    /\ negative \in {<<>>, << <<"i","o","n">>, <<"g","a","s">> >>}
    /\ raw = <<>> /\ calls = <<>>
    /\ neutral = <<>> /\ positive = <<>>
    /\ diags = <<>> /\ result = <<>>
    /\ Idle

NextNeutral == ExtractNeutral(Outcomes(StageNeutralTexts))

SpecNeutral == InitNeutral /\ [][NextNeutral]_vars

(***************************************************************************)
(* analyze on its own, on any three lists                                  *)
(***************************************************************************)
InitAnalyze ==
    /\ pc = "analyze"
    /\ topic = <<"t","i","d","e","s">>
    /\ explanation = <<"a",".">>
    /\ negative \in Lists /\ neutral \in Lists /\ positive \in Lists
    /\ raw = <<>> /\ calls = <<>>
    /\ diags = <<>> /\ result = <<>>
    /\ Idle

NextAnalyze == Diagnose

SpecAnalyze == InitAnalyze /\ [][NextAnalyze]_vars

(***************************************************************************)
(* sanitize_explanation on its own, applied once and then again            *)
(***************************************************************************)
InitSanitize ==
    /\ pc = "sanitize"
    /\ arg \in SanitizerInputs
    /\ once = <<>> /\ twice = <<>>
    /\ topic = <<>> /\ raw = <<>> /\ calls = <<>> /\ explanation = <<>>
    /\ negative = <<>> /\ neutral = <<>> /\ positive = <<>>
    /\ diags = <<>> /\ result = <<>>

SanitizeOnce ==
    /\ pc = "sanitize"
    /\ once' = SanitizeExplanation(arg)
    /\ pc' = "sanitized"
    /\ UNCHANGED <<topic, raw, calls, explanation, negative, neutral, positive,
                   diags, result, arg, twice>>

SanitizeAgain ==
    /\ pc = "sanitized"
    /\ twice' = SanitizeExplanation(once)
    /\ pc' = "resanitized"
    /\ UNCHANGED <<topic, raw, calls, explanation, negative, neutral, positive,
                   diags, result, arg, once>>

NextSanitize == SanitizeOnce \/ SanitizeAgain

SpecSanitize == InitSanitize /\ [][NextSanitize]_vars

(***************************************************************************)
(* Properties                                                              *)
(***************************************************************************)
\* the whitespace-delimited tokens of s, in order
RECURSIVE Tokens(_)
Tokens(s) ==
    LET t == LStripSet(s, Whitespace)
        i == FirstIn(t, Whitespace)
    IN  IF t = <<>> THEN <<>>
        ELSE IF i = 0 THEN <<t>>
        ELSE <<Take(t, i - 1)>> \o Tokens(Drop(t, i))

\* a is b with some of its elements left out
RECURSIVE IsSubsequence(_, _)
IsSubsequence(a, b) ==
    IF a = <<>> THEN TRUE
    ELSE IF b = <<>> THEN FALSE
    ELSE IF Head(a) = Head(b) THEN IsSubsequence(Tail(a), Tail(b))
    ELSE IsSubsequence(a, Tail(b))

Returned == result # <<>>

\* C1: the list extract_positive returns is never longer than the neutral
\* list it was given, so in every TriadicResult that run returns the positive
\* list is at most as long as the neutral list.
C1_PositiveWithinNeutral ==
    /\ pc \in {"analyze", "return", "done"} => Len(positive) <= Len(neutral)
    /\ Returned => Len(result[1].positive) <= Len(result[1].neutral)

\* a run whose positive response held more usable lines than there were
\* neutral items, and was cut to their number
C1_Witness ==
    /\ pc = "done"
    /\ neutral # <<>>
    /\ Len(PositiveItems(raw)) > Len(neutral)
    /\ Len(result[1].positive) = Len(result[1].neutral)

AllDiagnostics == <<NegativeFailed, NeutralFailed, PositiveFailed, Mismatch>>

\* the condition under which each message is due
Due(m) ==
    CASE m = NegativeFailed -> negative = <<>>
      [] m = NeutralFailed  -> neutral = <<>>
      [] m = PositiveFailed -> positive = <<>>
      [] m = Mismatch       -> Len(neutral) # Len(positive)

\* C2: analyze returns exactly those of the four messages whose condition
\* holds, in the fixed order NEGATIVE, NEUTRAL, POSITIVE, mismatch; the result
\* is empty iff the three lists are non-empty and neutral and positive have
\* the same length.
C2_DiagnosticsExact ==
    pc = "return" =>
        /\ diags = SelectSeq(AllDiagnostics, Due)
        /\ (diags = <<>>) <=>
              (/\ negative # <<>> /\ neutral # <<>> /\ positive # <<>>
               /\ Len(neutral) = Len(positive))

\* analyze on a positive list longer than the neutral list, all lists
\* non-empty: the mismatch message alone
C2_Witness ==
    /\ pc = "return"
    /\ negative # <<>> /\ neutral # <<>>
    /\ Len(positive) > Len(neutral)
    /\ diags = <<Mismatch>>

AllCallsEmpty == \A i \in DOMAIN calls : calls[i].empty

\* C3: when every gateway call of a run returned the empty string, run still
\* returns a TriadicResult: its topic is the input, its three lists are empty,
\* its diagnostics hold the three "extraction failed" messages and not the
\* mismatch message.
C3_TotalFailure ==
    (pc = "done" /\ AllCallsEmpty) =>
        /\ Returned
        /\ result[1].topic = topic
        /\ result[1].negative = <<>>
        /\ result[1].neutral = <<>>
        /\ result[1].positive = <<>>
        /\ {NegativeFailed, NeutralFailed, PositiveFailed} \subseteq
               Range(result[1].diagnostics)
        /\ Mismatch \notin Range(result[1].diagnostics)

\* a finished run all four calls of which returned ""
C3_Witness ==
    /\ pc = "done"
    /\ Len(calls) = 4
    /\ AllCallsEmpty
    /\ Len(result[1].diagnostics) = 3

\* C4: extract_negative returns at most 10 items, each of at most 3 words and
\* free of every banned term, and the items are a sub-sequence of the parsed,
\* lower-cased candidate lines; the four candidates of the example yield
\* "event horizon" and "virtual particle pair".
C4_NegativeFiltered ==
    pc = "neutral" =>
        /\ Len(negative) <= 10
        /\ \A i \in DOMAIN negative :
              /\ Len(Tokens(negative[i])) <= 3
              /\ \A b \in NegativeBanned : ~Contains(negative[i], b)
        /\ IsSubsequence(negative, Candidates(raw))
        /\ raw = ExampleNegativeText =>
              negative = << <<"e","v","e","n","t"," ","h","o","r","i","z","o","n">>, <<"v","i","r","t","u","a","l"," ","p","a","r","t","i","c","l","e"," ","p","a","i","r">> >>

\* the example: four candidates came back, the third and the fourth are gone
C4_Witness ==
    /\ pc = "neutral"
    /\ raw = ExampleNegativeText
    /\ Len(Candidates(raw)) = 4
    /\ Len(negative) = 2

\* C5: extract_neutral returns one item per non-blank line of the response,
\* in order: the stripped line with its trailing periods replaced by exactly
\* one period, so no item ends in two periods.
C5_OnePeriod ==
    pc = "positive" =>
        LET lines == SelectSeq(SplitLines(raw), NonBlank)
        IN  /\ Len(neutral) = Len(lines)
            /\ \A i \in DOMAIN neutral :
                  LET item == neutral[i]
                      body == Take(item, Len(item) - 1)
                      line == Strip(lines[i])
                  IN  /\ item # <<>>
                      /\ item[Len(item)] = "."
                      /\ ~EndsWith(item, <<".", ".">>)
                      /\ StartsWith(line, body)
                      /\ Range(Drop(line, Len(body))) \subseteq {"."}

\* the scenario of the neutral stage: a line without a period and a line
\* that ends in two
C5_Witness ==
    /\ pc = "positive"
    /\ raw = Join(<< <<"p","a","r","t","i","c","l","e"," ","p","a","i","r","s"," ","s","e","p","a","r","a","t","e"," ","n","e","a","r"," ","t","h","e"," ","h","o","r","i","z","o","n">>,
                     <<"o","n","e"," ","p","a","r","t","i","c","l","e"," ","e","s","c","a","p","e","s",".",".">> >>, <<"\n">>)
    /\ neutral = << <<"p","a","r","t","i","c","l","e"," ","p","a","i","r","s"," ","s","e","p","a","r","a","t","e"," ","n","e","a","r"," ","t","h","e"," ","h","o","r","i","z","o","n",".">>,
                    <<"o","n","e"," ","p","a","r","t","i","c","l","e"," ","e","s","c","a","p","e","s",".">> >>

HasBanned(s) == \E i \in DOMAIN SanitizerBanned : Contains(s, SanitizerBanned[i])

\* C6: sanitizing a sanitized explanation changes nothing, provided the
\* sanitized explanation holds no banned term.
C6_Idempotent ==
    (pc = "resanitized" /\ ~HasBanned(once)) => twice = once

\* an input the first application changed by removing a banned term, and the
\* second application left alone
C6_Witness ==
    /\ pc = "resanitized"
    /\ HasBanned(arg)
    /\ ~HasBanned(once)
    /\ once # arg
    /\ twice = once

\* s without its last whitespace-delimited token
WithoutLastToken(s) ==
    LET solid == {i \in DOMAIN s : s[i] \notin Whitespace}
        j == Max(solid)
        i == CHOOSE k \in solid :
                 /\ \A x \in k..j : x \in solid
                 /\ k = 1 \/ (k - 1) \notin solid
    IN  IF solid = {} THEN s ELSE Take(s, i - 1) \o Drop(s, j)

\* s without the run of word characters at its end, where the end is the
\* end of s or the place before a newline that is the last character
WithoutWordAtEnd(s) ==
    LET nl   == s # <<>> /\ s[Len(s)] = "\n"
        body == IF nl THEN Take(s, Len(s) - 1) ELSE s
        n    == CHOOSE k \in 0..Len(body) :
                    /\ \A x \in (Len(body) - k + 1)..Len(body) : body[x] \in WordChars
                    /\ k = Len(body) \/ body[Len(body) - k] \notin WordChars
    IN  Take(body, Len(body) - n) \o (IF nl THEN <<"\n">> ELSE <<>>)

StageOrder == <<"explanation", "negative", "neutral", "positive">>

StageModels == <<ExplanationModel, NegativeModel, NeutralModel, PositiveModel>>

\* the number of gateway calls made when the run is at p
CallsBefore(p) ==
    CASE p = "explanation" -> 0
      [] p = "negative"    -> 1
      [] p = "neutral"     -> 2
      [] p = "positive"    -> 3
      [] OTHER             -> 4

\* C10: a run makes exactly four gateway calls, in the order Explanation,
\* Negative, Neutral, Positive, whatever the earlier calls returned; the
\* diagnostics are computed after the Positive stage; the run can always take
\* its next step until it has returned a TriadicResult.
C10_StrictOrder ==
    /\ pc \in Range(StageOrder) \cup {"analyze", "return", "done"}
    /\ Len(calls) = CallsBefore(pc)
    /\ \A i \in DOMAIN calls :
          calls[i].stage = StageOrder[i] /\ calls[i].model = StageModels[i]
    /\ pc \in Range(StageOrder) \cup {"analyze"} => diags = <<>>
    /\ pc # "done" => ~Returned /\ ENABLED Next
    /\ pc = "done" => Returned /\ result[1].diagnostics = diags

\* a finished run whose negative call returned nothing and whose later
\* calls were made all the same
C10_Witness ==
    /\ pc = "done"
    /\ Len(calls) = 4
    /\ calls[2].empty
    /\ ~calls[3].empty /\ ~calls[4].empty
    /\ Returned

\* C7: the neutral list of a run has at most 8 items.
C7_NeutralAtMostEight ==
    /\ Len(neutral) <= NeutralAsked
    /\ Returned => Len(result[1].neutral) <= NeutralAsked

\* C8: when the explanation call returned the empty string, the explanation
\* is the empty string.
C8_EmptyExplanation ==
    (pc # "explanation" /\ calls[1].empty) =>
        /\ explanation = <<>>
        /\ Returned => result[1].explanation = <<>>

====
